---- MODULE Spec2Model ----
(***************************************************************************)
(* wlscreenaccess: a client of the desktop portal's Screenshot interface.  *)
(*                                                                         *)
(* Three parts, each with its own specification over the same variables:  *)
(*   TokenSpec  HandleToken::try_from and HandleToken::default (lib.rs)    *)
(*   CodecSpec  Serialize / Deserialize of Response<T> (response.rs)       *)
(*   Spec       color_pick / screenshot against the portal service, and    *)
(*   FairSpec   the same with the caller's steps weakly fair.              *)
(***************************************************************************)
EXTENDS Integers, Sequences, FiniteSets, TLC

VARIABLES
    \* --- HandleToken (lib.rs 13-54)
    tokOp,        \* "parse": try_from(value); "default": HandleToken::default()
    value,        \* the &str handed to try_from
    sampled,      \* the characters drawn so far by sample_iter(Alphanumeric)
    tokPc,        \* "run" | "done"
    tokResult,    \* outcome of the operation
    \* --- Response<T> codec (response.rs 72-156)
    codecOp,      \* "decode" | "roundtrip"
    T,            \* the payload type parameter
    envelope,     \* the Response<T> value handed to serialize
    wire,         \* the tuple on the wire
    codecPc,      \* "encode" | "decode" | "done"
    decoded,      \* outcome of deserialize
    \* --- color_pick / screenshot (lib.rs 123-165)
    kind,         \* which request function runs
    pc,           \* the await point the caller is suspended at, or its end
    requestObject,\* the portal accepted the call and the request object exists
    subscribed,   \* the Response signal stream exists
    queue,        \* bodies delivered to the signal stream and not yet consumed
    closed,       \* the connection's message stream has ended
    emitted,      \* Response signals the service has emitted
    nCalls,       \* outbound method calls sent
    nSubs,        \* receive_signal subscriptions made
    nConsumed,    \* notifications taken from the stream
    nDecodes,     \* message.body() decodes performed
    color,        \* the local `color`: the decoded envelope
    ret           \* the value the request function returned

tokVars   == <<tokOp, value, sampled, tokPc, tokResult>>
codecVars == <<codecOp, T, envelope, wire, codecPc, decoded>>
reqVars   == <<kind, pc, requestObject, subscribed, queue, closed, emitted,
               nCalls, nSubs, nConsumed, nDecodes, color, ret>>
vars      == <<tokVars, codecVars, reqVars>>

(***************************************************************************)
(* Bounds                                                                  *)
(***************************************************************************)
MaxTokenLen == 3      \* longest string handed to try_from
MaxStatus   == 5      \* status codes on the wire are 0..MaxStatus
MaxEntries  == 2      \* longest vardict handed directly to the codec
MaxEmit     == 2      \* Response signals the service may emit for one request

Min(S) == CHOOSE x \in S : \A y \in S : x <= y

SeqsUpTo(S, n) == UNION {[1..k -> S] : k \in 0..n}

\* Outcomes are records [tag, val]; val is read only after tag is known.
Outcome(tag, val) == [tag |-> tag, val |-> val]

(***************************************************************************)
(* HandleToken                                                             *)
(***************************************************************************)
\* Characters are one-character strings; a string is a sequence of them.
\* Representatives of each class try_from tells apart.
LowerChars == {"a", "s", "h", "p", "d"}
UpperChars == {"Z"}
DigitChars == {"7"}

\* char::is_ascii_alphanumeric
is_ascii_alphanumeric(c) == c \in LowerChars \cup UpperChars \cup DigitChars

\* Characters of the strings handed to try_from: one lower-case letter, one
\* upper-case letter, one digit, the underscore and one character outside
\* the class.
InputChars == {"a", "Z", "7", "_", "-"}

\* OwnedMemberName::try_from: a D-Bus member name is 1 to 255 characters of
\* [A-Za-z0-9_] and does not begin with a digit.
MemberNameValid(s) ==
    /\ Len(s) >= 1
    /\ Len(s) <= 255
    /\ \A i \in 1..Len(s) : is_ascii_alphanumeric(s[i]) \/ s[i] = "_"
    /\ s[1] \notin DigitChars

\* The positions the loop of try_from returns on (lib.rs 38-42).
InvalidPositions(s) ==
    {i \in 1..Len(s) : ~is_ascii_alphanumeric(s[i]) /\ s[i] # "_"}

\* impl TryFrom<&str> for HandleToken: Err carries the first offending
\* character; otherwise the member name is built with expect(), which aborts
\* when the name is rejected.
try_from(s) ==
    IF InvalidPositions(s) # {}
    THEN Outcome("Err", <<s[Min(InvalidPositions(s))]>>)
    ELSE IF MemberNameValid(s)
         THEN Outcome("Ok", s)
         ELSE Outcome("Panic", <<>>)

\* Result::unwrap
unwrap(r) == IF r.tag = "Ok" THEN r ELSE Outcome("Panic", <<>>)

TokenRandomLen == 10

\* The mutant prefix: a hyphen where the underscore belongs.
HyphenPrefix == <<"a", "s", "h", "p", "d", "-">>

\* format!("ashpd_{}", token)
TokenPrefix == <<"a", "s", "h", "p", "d", "_">>

\* What rand's Alphanumeric distribution is sampled from here: one lower-case
\* letter, one upper-case letter, one digit.
AlphanumericSample == {"a", "Z", "7"}

TokenIdle ==
    /\ tokOp = "none" /\ value = <<>> /\ sampled = <<>>
    /\ tokPc = "done" /\ tokResult = Outcome("None", <<>>)

TokenInit ==
    /\ tokOp \in {"parse", "default"}
    /\ value \in (IF tokOp = "parse" THEN SeqsUpTo(InputChars, MaxTokenLen) ELSE {<<>>})
    /\ sampled = <<>>
    /\ tokPc = "run"
    /\ tokResult = Outcome("None", <<>>)

\* HandleToken::try_from(value)
TryFrom ==
    /\ tokOp = "parse" /\ tokPc = "run"
    /\ tokResult' = try_from(value)
    /\ tokPc' = "done"
    /\ UNCHANGED <<tokOp, value, sampled>>
    /\ UNCHANGED <<codecVars, reqVars>>

\* One character out of sample_iter(Alphanumeric).take(10)
SampleChar ==
    /\ tokOp = "default" /\ tokPc = "run"
    /\ Len(sampled) < TokenRandomLen
    /\ \E c \in AlphanumericSample : sampled' = Append(sampled, c)
    /\ UNCHANGED <<tokOp, value, tokPc, tokResult>>
    /\ UNCHANGED <<codecVars, reqVars>>

\* HandleToken::try_from(format!("ashpd_{}", token)).unwrap()
DefaultFinish ==
    /\ tokOp = "default" /\ tokPc = "run"
    /\ Len(sampled) = TokenRandomLen
    /\ value' = TokenPrefix \o sampled
    /\ tokResult' = unwrap(try_from(TokenPrefix \o sampled))
    /\ tokPc' = "done"
    /\ UNCHANGED <<tokOp, sampled>>
    /\ UNCHANGED <<codecVars, reqVars>>

(***************************************************************************)
(* Response<T> codec                                                       *)
(***************************************************************************)
\* enum ResponseType { Success = 0, Cancelled = 1, Other = 2 }
ResponseType == {"Success", "Cancelled", "Other"}

\* enum ResponseError { Cancelled, Other }
ResponseError == {"Cancelled", "Other"}

\* The u32 a ResponseType is written as.
Discriminant(t) ==
    CASE t = "Success"   -> 0
      [] t = "Cancelled" -> 1
      [] t = "Other"     -> 2

\* The mutant: both arms of the match written with the same variant.
ResponseTypeFromSameArm(err) ==
    CASE err = "Other"     -> "Cancelled"
      [] err = "Cancelled" -> "Cancelled"

\* impl From<ResponseError> for ResponseType
ResponseTypeFrom(err) ==
    CASE err = "Other"     -> "Other"
      [] err = "Cancelled" -> "Cancelled"

\* Values of a vardict (a{sv}): an array of doubles or a string.  A string's
\* content is kept only as far as url::Url's parser tells it apart: <<1>> is
\* a string that parses as a URL, <<0>> one that does not.
Variant(sig, val) == [sig |-> sig, val |-> val]

Values ==
    { Variant("ad", <<1, 2, 3>>), Variant("ad", <<1, 2>>),
      Variant("s", <<1>>), Variant("s", <<0>>) }

Keys == {"color", "uri"}

\* An entry of a vardict on the wire.
Entries == Keys \X Values

\* The payload types Response<T> is used with.
PayloadTypes == {"ColorResponse", "ScreenshotResponse", "BasicResponse"}

\* Of these only BasicResponse derives Serialize as well.
SerializableTypes == {"BasicResponse"}

\* Collecting a{sv} into a HashMap: entries are inserted in wire order, a
\* later entry replacing an earlier one of the same key.
RECURSIVE CollectMap(_)
CollectMap(d) ==
    IF d = <<>> THEN <<>>
    ELSE LET init == CollectMap(SubSeq(d, 1, Len(d) - 1))
             e    == d[Len(d)]
         IN [k \in (DOMAIN init) \cup {e[1]} |->
                IF k = e[1] THEN e[2] ELSE init[k]]

\* T's own Deserialize on the payload slot.
\*   ColorResponse      { color: [f64; 3] }   (DeserializeDict)
\*   ScreenshotResponse { uri: url::Url }     (DeserializeDict)
\*   BasicResponse(HashMap<String, OwnedValue>)
DeserializePayload(t, d) ==
    LET m == CollectMap(d) IN
    CASE t = "ColorResponse" ->
           IF "color" \in DOMAIN m /\ m["color"].sig = "ad" /\ Len(m["color"].val) = 3
           THEN Outcome("Ok", [color |-> m["color"].val])
           ELSE Outcome("Err", <<>>)
      [] t = "ScreenshotResponse" ->
           IF "uri" \in DOMAIN m /\ m["uri"].sig = "s" /\ m["uri"].val = <<1>>
           THEN Outcome("Ok", [uri |-> m["uri"].val])
           ELSE Outcome("Err", <<>>)
      [] t = "BasicResponse" -> Outcome("Ok", m)

\* Deserialize of ResponseType from the u32 on the wire: only the three known
\* variants exist.
DeserializeResponseType(n) ==
    IF \E t \in ResponseType : Discriminant(t) = n
    THEN Outcome("Ok", CHOOSE t \in ResponseType : Discriminant(t) = n)
    ELSE Outcome("Err", <<>>)

Some(x) == [some |-> TRUE, val |-> x]
None    == [some |-> FALSE, val |-> <<>>]

\* The mutant: the payload slot read and decoded whatever the status.
visit_seq_always_reads(t, w) ==
    IF Len(w) < 1 THEN Outcome("DeError", "MalformedHeader")
    ELSE LET type_ == DeserializeResponseType(w[1]) IN
         IF type_.tag = "Err" THEN Outcome("DeError", "MalformedHeader")
         ELSE IF Len(w) < 2 THEN Outcome("DeError", "MissingPayload")
         ELSE LET data == DeserializePayload(t, w[2]) IN
              IF data.tag = "Err"
              THEN Outcome("DeError", "PayloadDecodeFailure")
              ELSE Outcome("Ok", [type |-> type_.val, data |-> Some(data.val)])

\* The mutant: an absent payload slot under Success let through as None.
visit_seq_lenient(t, w) ==
    IF Len(w) < 1 THEN Outcome("DeError", "MalformedHeader")
    ELSE LET type_ == DeserializeResponseType(w[1]) IN
         IF type_.tag = "Err" THEN Outcome("DeError", "MalformedHeader")
         ELSE IF type_.val = "Success" /\ Len(w) >= 2
         THEN LET data == DeserializePayload(t, w[2]) IN
              IF data.tag = "Err"
              THEN Outcome("DeError", "PayloadDecodeFailure")
              ELSE Outcome("Ok", [type |-> type_.val, data |-> Some(data.val)])
         ELSE Outcome("Ok", [type |-> type_.val, data |-> None])

\* ResponseVisitor::visit_seq (response.rs 95-110): the status first; the
\* payload slot is read, as T, only under Success.
visit_seq(t, w) ==
    IF Len(w) < 1 THEN Outcome("DeError", "MalformedHeader")
    ELSE LET type_ == DeserializeResponseType(w[1]) IN
         IF type_.tag = "Err" THEN Outcome("DeError", "MalformedHeader")
         ELSE IF type_.val = "Success"
         THEN IF Len(w) < 2 THEN Outcome("DeError", "MissingPayload")
              ELSE LET data == DeserializePayload(t, w[2]) IN
                   IF data.tag = "Err"
                   THEN Outcome("DeError", "PayloadDecodeFailure")
                   ELSE Outcome("Ok", [type |-> type_.val, data |-> Some(data.val)])
         ELSE Outcome("Ok", [type |-> type_.val, data |-> None])

\* impl From<(ResponseType, Option<T>)> for Response<T>; expect() aborts on
\* Success without a payload.
ResponseFrom(f) ==
    CASE f.type = "Success" ->
           IF f.data.some THEN Outcome("Ok", f.data.val) ELSE Outcome("Panic", <<>>)
      [] f.type = "Cancelled" -> Outcome("Err", "Cancelled")
      [] f.type = "Other"     -> Outcome("Err", "Other")

\* The mutant: a status code outside the known three taken for Other.
deserialize_unknown_as_other(t, w) ==
    IF Len(w) >= 1 /\ DeserializeResponseType(w[1]).tag = "Err"
    THEN Outcome("Err", "Other")
    ELSE LET response == visit_seq(t, w) IN
         IF response.tag = "DeError" THEN response ELSE ResponseFrom(response.val)

\* impl Deserialize for Response<T>: "Ok" is Response::Ok(payload), "Err" is
\* Response::Err(kind), "DeError" the deserializer's error.
deserialize(t, w) ==
    LET response == visit_seq(t, w) IN
    IF response.tag = "DeError" THEN response ELSE ResponseFrom(response.val)

\* The orders a HashMap's entries may be written in.
MapEncodings(m) ==
    {d \in [1..Cardinality(DOMAIN m) -> (DOMAIN m) \X Values] :
        /\ \A k \in DOMAIN m : \E i \in DOMAIN d : d[i] = <<k, m[k]>>
        /\ \A i \in DOMAIN d : d[i][2] = m[d[i][1]]}

\* T's own Serialize (BasicResponse: the map as a{sv}).
SerializePayload(t, p) == MapEncodings(p)

\* BasicResponse::default()
BasicResponseDefault == <<>>

\* impl Serialize for Response<T>: the set of tuples the serializer may
\* write (one per order of the payload map).
serialize(t, r) ==
    IF r.tag = "Err"
    THEN {<<Discriminant(ResponseTypeFrom(r.val)), d>> :
              d \in MapEncodings(BasicResponseDefault)}
    ELSE {<<Discriminant("Success"), d>> : d \in SerializePayload(t, r.val)}

\* The values of a BasicResponse: maps from some keys to values.
BasicResponses == UNION {[ks -> Values] : ks \in SUBSET Keys}

\* The Response<T> values handed to serialize.
Envelopes(t) ==
    {Outcome("Err", k) : k \in ResponseError}
        \cup {Outcome("Ok", p) : p \in BasicResponses}

\* Tuples on the wire: nothing, a status alone, a status and a vardict.
WiresWith(dicts) ==
    {<<>>} \cup {<<s>> : s \in 0..MaxStatus}
           \cup {<<s, d>> : s \in 0..MaxStatus, d \in dicts}

Wires == WiresWith(SeqsUpTo(Entries, MaxEntries))

CodecIdle ==
    /\ codecOp = "none" /\ T = "none" /\ envelope = Outcome("None", <<>>)
    /\ wire = <<>> /\ codecPc = "done" /\ decoded = Outcome("None", <<>>)

CodecInit ==
    /\ codecOp \in {"decode", "roundtrip"}
    /\ \/ /\ codecOp = "decode"
          /\ T \in PayloadTypes
          /\ envelope = Outcome("None", <<>>)
          /\ wire \in Wires
          /\ codecPc = "decode"
       \/ /\ codecOp = "roundtrip"
          /\ T \in SerializableTypes
          /\ envelope \in Envelopes(T)
          /\ wire = <<>>
          /\ codecPc = "encode"
    /\ decoded = Outcome("None", <<>>)

\* Response<T>::serialize
Serialize ==
    /\ codecPc = "encode"
    /\ wire' \in serialize(T, envelope)
    /\ codecPc' = "decode"
    /\ UNCHANGED <<codecOp, T, envelope, decoded>>
    /\ UNCHANGED <<tokVars, reqVars>>

\* Response<T>::deserialize
Deserialize ==
    /\ codecPc = "decode"
    /\ decoded' = deserialize(T, wire)
    /\ codecPc' = "done"
    /\ UNCHANGED <<codecOp, T, envelope, wire>>
    /\ UNCHANGED <<tokVars, reqVars>>

(***************************************************************************)
(* color_pick / screenshot                                                 *)
(***************************************************************************)
\* The payload type each request function decodes its notification as.
PayloadTypeOf(k) ==
    CASE k = "color_pick" -> "ColorResponse"
      [] k = "screenshot" -> "ScreenshotResponse"

\* Bodies the service may put in a Response signal: a tuple whose vardict is
\* empty or holds one entry.
SingleEntryDicts == {<<>>} \cup {<<e>> : e \in Entries}

Bodies == WiresWith(SingleEntryDicts)

\* The match that ends both functions (lib.rs 139-142, 161-164).
MatchResponse(c) ==
    IF c.tag = "Ok" THEN Outcome("Ok", c.val) ELSE Outcome("Err", "Unsupported")

Done == {"returned", "panicked"}

RequestIdle ==
    /\ kind = "none" /\ pc = "returned" /\ requestObject = FALSE
    /\ subscribed = FALSE /\ queue = <<>> /\ closed = FALSE /\ emitted = MaxEmit
    /\ nCalls = 0 /\ nSubs = 0 /\ nConsumed = 0 /\ nDecodes = 0
    /\ color = Outcome("None", <<>>) /\ ret = Outcome("None", <<>>)

RequestInit ==
    /\ kind \in {"color_pick", "screenshot"}
    /\ pc = "session"
    /\ requestObject = FALSE /\ subscribed = FALSE
    /\ queue = <<>> /\ closed = FALSE /\ emitted = 0
    /\ nCalls = 0 /\ nSubs = 0 /\ nConsumed = 0 /\ nDecodes = 0
    /\ color = Outcome("None", <<>>) /\ ret = Outcome("None", <<>>)

\* A step `expr.await?` (or `expr?`) that touches only the connection: on Ok
\* the caller moves on, on Err the function returns the zbus error.
Try(from, to) ==
    /\ pc = from
    /\ \E ok \in BOOLEAN :
          IF ok THEN pc' = to /\ ret' = ret
                ELSE pc' = "returned" /\ ret' = Outcome("Err", "Zbus")

\* Connection::session().await?
ConnectionSession ==
    /\ Try("session", "proxy_new")
    /\ UNCHANGED <<kind, requestObject, subscribed, queue, closed, emitted,
                   nCalls, nSubs, nConsumed, nDecodes, color>>
    /\ UNCHANGED <<tokVars, codecVars>>

\* ScreenshotProxy::new(&connection).await?
ProxyNew ==
    /\ Try("proxy_new", "call")
    /\ UNCHANGED <<kind, requestObject, subscribed, queue, closed, emitted,
                   nCalls, nSubs, nConsumed, nDecodes, color>>
    /\ UNCHANGED <<tokVars, codecVars>>

\* poxy.pick_color(..).await? / poxy.screenshot(..).await?: the method call
\* is sent; the portal answers with the request object's path or an error.
MethodCall ==
    /\ pc = "call"
    /\ nCalls' = nCalls + 1
    /\ \E accepted \in BOOLEAN :
          IF accepted
          THEN requestObject' = TRUE /\ pc' = "build" /\ ret' = ret
          ELSE requestObject' = FALSE /\ pc' = "returned"
               /\ ret' = Outcome("Err", "Zbus")
    /\ UNCHANGED <<kind, subscribed, queue, closed, emitted,
                   nSubs, nConsumed, nDecodes, color>>
    /\ UNCHANGED <<tokVars, codecVars>>

\* ProxyBuilder::new_bare(..).interface(..)?.path(reply)?.destination(..)?
\*     .build().await?
BuildProxy ==
    /\ Try("build", "receive_signal")
    /\ UNCHANGED <<kind, requestObject, subscribed, queue, closed, emitted,
                   nCalls, nSubs, nConsumed, nDecodes, color>>
    /\ UNCHANGED <<tokVars, codecVars>>

\* proxy.receive_signal("Response").await?: from here on Response signals of
\* the request object are queued on the stream.
ReceiveSignal ==
    /\ pc = "receive_signal"
    /\ nSubs' = nSubs + 1
    /\ \E ok \in BOOLEAN :
          IF ok
          THEN subscribed' = TRUE /\ pc' = "next" /\ ret' = ret
          ELSE subscribed' = FALSE /\ pc' = "returned"
               /\ ret' = Outcome("Err", "Zbus")
    /\ UNCHANGED <<kind, requestObject, queue, closed, emitted,
                   nCalls, nConsumed, nDecodes, color>>
    /\ UNCHANGED <<tokVars, codecVars>>

\* What follows a message out of request.next().await, up to the function's
\* end: message.body().unwrap(), the match, the return.  The stream is
\* dropped with the function's locals.
Finish(c) ==
    /\ color' = c
    /\ IF c.tag \in {"Ok", "Err"}
       THEN pc' = "returned" /\ ret' = MatchResponse(c)
       ELSE pc' = "panicked" /\ ret' = ret
    /\ subscribed' = FALSE

\* The mutant: the stream drained, the last notification kept.
NextMessageDrain ==
    /\ pc = "next"
    /\ queue # <<>>
    /\ nConsumed' = nConsumed + Len(queue)
    /\ nDecodes' = nDecodes + 1
    /\ queue' = <<>>
    /\ Finish(deserialize(PayloadTypeOf(kind), queue[Len(queue)]))
    /\ UNCHANGED <<kind, requestObject, closed, emitted, nCalls, nSubs>>
    /\ UNCHANGED <<tokVars, codecVars>>

\* request.next().await.unwrap() yielding a message, and the rest of the
\* function.
NextMessage ==
    /\ pc = "next"
    /\ queue # <<>>
    /\ nConsumed' = nConsumed + 1
    /\ nDecodes' = nDecodes + 1
    /\ queue' = Tail(queue)
    /\ Finish(deserialize(PayloadTypeOf(kind), Head(queue)))
    /\ UNCHANGED <<kind, requestObject, closed, emitted, nCalls, nSubs>>
    /\ UNCHANGED <<tokVars, codecVars>>

\* request.next().await.unwrap() on a stream that has ended: None.
NextNone ==
    /\ pc = "next"
    /\ queue = <<>>
    /\ closed
    /\ pc' = "panicked"
    /\ subscribed' = FALSE
    /\ UNCHANGED <<kind, requestObject, queue, closed, emitted,
                   nCalls, nSubs, nConsumed, nDecodes, color, ret>>
    /\ UNCHANGED <<tokVars, codecVars>>

\* The portal emits Response on the request object.  It reaches the caller
\* only through a stream that exists when it is emitted.
EmitResponse ==
    /\ requestObject
    /\ ~closed
    /\ emitted < MaxEmit
    /\ emitted' = emitted + 1
    /\ \E body \in Bodies :
          queue' = IF subscribed THEN Append(queue, body) ELSE queue
    /\ UNCHANGED <<kind, pc, requestObject, subscribed, closed,
                   nCalls, nSubs, nConsumed, nDecodes, color, ret>>
    /\ UNCHANGED <<tokVars, codecVars>>

\* The connection goes away under the stream.
ConnectionClosed ==
    /\ subscribed
    /\ ~closed
    /\ closed' = TRUE
    /\ UNCHANGED <<kind, pc, requestObject, subscribed, queue, emitted,
                   nCalls, nSubs, nConsumed, nDecodes, color, ret>>
    /\ UNCHANGED <<tokVars, codecVars>>

CallerNext ==
    \/ ConnectionSession
    \/ ProxyNew
    \/ MethodCall
    \/ BuildProxy
    \/ ReceiveSignal
    \/ NextMessage
    \/ NextNone

(***************************************************************************)
(* Specifications                                                          *)
(***************************************************************************)
Init == TokenIdle /\ CodecIdle /\ RequestInit

Next ==
    \/ ConnectionSession
    \/ ProxyNew
    \/ MethodCall
    \/ BuildProxy
    \/ ReceiveSignal
    \/ NextMessage
    \/ NextNone
    \/ EmitResponse
    \/ ConnectionClosed

Spec == Init /\ [][Next]_vars

\* The async runtime polls the request's future whenever it can make
\* progress; the portal and the connection are under no such obligation.
FairSpec == Init /\ [][Next]_vars /\ WF_vars(CallerNext)

TokenSpecInit == TokenInit /\ CodecIdle /\ RequestIdle

TokenSpecNext == TryFrom \/ SampleChar \/ DefaultFinish

TokenSpec == TokenSpecInit /\ [][TokenSpecNext]_vars

CodecSpecInit == TokenIdle /\ CodecInit /\ RequestIdle

CodecSpecNext == Serialize \/ Deserialize

CodecSpec == CodecSpecInit /\ [][CodecSpecNext]_vars

(***************************************************************************)
(* Properties                                                              *)
(***************************************************************************)
\* The character class [A-Za-z0-9_] over the modelled characters.
TokenClass == LowerChars \cup UpperChars \cup DigitChars \cup {"_"}

AllInClass(s) == \A i \in 1..Len(s) : s[i] \in TokenClass

FirstOffending(s) == s[Min({i \in 1..Len(s) : s[i] \notin TokenClass})]

\* C1: round trip.  Deserializing what serialize wrote for Ok(p) gives Ok(p),
\* and for Err(k), k in {Cancelled, Other}, gives Err(k), whichever order the
\* payload's entries were written in.
C1_RoundTrip ==
    (codecOp = "roundtrip" /\ codecPc = "done") =>
        /\ decoded.tag = envelope.tag
        /\ decoded.val = envelope.val

\* A payload of two entries has been written, read back and found as Ok.
C1_Witness ==
    /\ codecOp = "roundtrip" /\ codecPc = "done"
    /\ envelope.tag = "Ok"
    /\ Cardinality(DOMAIN envelope.val) = 2
    /\ Len(wire[2]) = 2
    /\ decoded.tag = "Ok"

\* C2: try_from succeeds exactly when every character of the input is in
\* [A-Za-z0-9_], fails otherwise with the first offending character, and
\* never aborts, the empty string and strings beginning with a digit
\* included.
C2_ParseIffAllInClass ==
    (tokOp = "parse" /\ tokPc = "done") =>
        /\ tokResult.tag # "Panic"
        /\ (tokResult.tag = "Ok") <=> AllInClass(value)
        /\ ~AllInClass(value) =>
              (tokResult.tag = "Err" /\ tokResult.val = <<FirstOffending(value)>>)

\* C3: a tuple of status Success with no payload slot fails to decode with
\* the missing-payload error, and Ok(payload) comes only out of a tuple of
\* status Success whose payload slot was there and decoded to that payload.
C3_SuccessNeedsPayload ==
    (codecOp = "decode" /\ codecPc = "done") =>
        /\ (wire = <<0>>) =>
              (decoded.tag = "DeError" /\ decoded.val = "MissingPayload")
        /\ (decoded.tag = "Ok") =>
              /\ Len(wire) = 2
              /\ wire[1] = 0
              /\ DeserializePayload(T, wire[2]).tag = "Ok"
              /\ decoded.val = DeserializePayload(T, wire[2]).val

\* The tuple (0) has been decoded.
C3_Witness ==
    /\ codecOp = "decode" /\ codecPc = "done"
    /\ wire = <<0>>
    /\ decoded.tag = "DeError"

\* C4: a tuple of status 1 decodes to Err(Cancelled) and one of status 2 to
\* Err(Other), whatever the second element holds (nothing, a payload of T,
\* a vardict T's decoder rejects).
C4_FailureIgnoresPayload ==
    (codecOp = "decode" /\ codecPc = "done" /\ Len(wire) >= 1) =>
        /\ (wire[1] = 1) => (decoded.tag = "Err" /\ decoded.val = "Cancelled")
        /\ (wire[1] = 2) => (decoded.tag = "Err" /\ decoded.val = "Other")

\* A tuple of status Cancelled whose vardict T's decoder rejects has been
\* decoded.
C4_Witness ==
    /\ codecOp = "decode" /\ codecPc = "done"
    /\ Len(wire) = 2
    /\ wire[1] = 1
    /\ DeserializePayload(T, wire[2]).tag = "Err"
    /\ decoded.tag = "Err"

\* C5: a tuple whose status is none of 0, 1, 2 fails to decode with the
\* malformed-header error; it gives neither Ok nor Err(Cancelled) nor
\* Err(Other).
C5_UnknownStatusRejected ==
    (codecOp = "decode" /\ codecPc = "done" /\ Len(wire) >= 1
        /\ wire[1] \notin {0, 1, 2}) =>
        (decoded.tag = "DeError" /\ decoded.val = "MalformedHeader")

\* The tuple (5, {}) has been decoded.
C5_Witness ==
    /\ codecOp = "decode" /\ codecPc = "done"
    /\ wire = <<5, <<>>>>
    /\ decoded.tag = "DeError"

\* C6: HandleToken::default never fails; its token is "ashpd_" followed by
\* exactly 10 characters of [A-Za-z0-9], and try_from accepts it.
C6_DefaultToken ==
    (tokOp = "default" /\ tokPc = "done") =>
        /\ tokResult.tag = "Ok"
        /\ Len(tokResult.val) = 6 + 10
        /\ SubSeq(tokResult.val, 1, 6) = <<"a", "s", "h", "p", "d", "_">>
        /\ \A i \in 7..Len(tokResult.val) :
              tokResult.val[i] \in LowerChars \cup UpperChars \cup DigitChars
        /\ AllInClass(tokResult.val)
        /\ try_from(tokResult.val).tag = "Ok"

\* A token has been generated whose random part begins with a digit and
\* holds an upper-case letter.
C6_Witness ==
    /\ tokOp = "default" /\ tokPc = "done"
    /\ tokResult.tag = "Ok"
    /\ tokResult.val[7] \in DigitChars
    /\ tokResult.val[16] \in UpperChars

\* C7: an envelope decoded to Err(Cancelled) or Err(Other) is returned as a
\* failure, and as one that tells the two kinds apart: what is returned is
\* not what the other kind would have been returned as.
C7_FailureKindDistinguishable ==
    (pc = "returned" /\ color.tag = "Err") =>
        /\ ret.tag = "Err"
        /\ \A k \in ResponseError \ {color.val} :
              MatchResponse(Outcome("Err", k)) # ret

C9_FailuresReturned ==
    /\ pc # "panicked"
    /\ color.tag = "DeError" => (pc = "returned" /\ ret.tag = "Err")

\* C10: once the portal has accepted the call and emitted Response, the
\* request comes to its end, whenever the emission fell between the caller's
\* steps.
C10_EventuallyReturns ==
    [](emitted >= 1 => <>(pc \in Done))

====
